---- MODULE Spec2Model ----
(***************************************************************************)
(* Galaxy Defender (src/index.tsx): the React component App, its frame     *)
(* loop (update), its event handlers and the entity classes, as a state    *)
(* machine.                                                                *)
(*                                                                         *)
(* Units.  Every coordinate and velocity is kept in tenths of a pixel, so  *)
(* that the code's constants 1.8, 0.3, 2.4, 2.5 and 0.4 are whole numbers. *)
(* Times are whole milliseconds.  The code keeps three timestamps          *)
(* (lastFire, lastEnemySpawn, startTime) and only ever reads their         *)
(* distance to the current time; the model keeps those distances           *)
(* (sinceFire, sinceSpawn, elapsed), which saturate where a larger value   *)
(* no longer changes what the code does.                                   *)
(*                                                                         *)
(* Floating point.  The damping vx *= 0.86 is computed in tenths of a      *)
(* pixel, truncated towards zero; Math.sin is Bhaskara's rational          *)
(* approximation in thousandths; Math.random() is an input of the frame.   *)
(*                                                                         *)
(* React.  A handler's setState calls are committed, and the effect of     *)
(* lines 349-625 is re-run when one of its dependencies changed, before    *)
(* the next event is handled: each action is the handler followed by that  *)
(* commit.  Updater functions run in the order of their calls.  Two actions *)
(* have an event handled before the commit: BuyTwice (two clicks           *)
(* dispatched in one task) and FrameAndKeys with a key (update runs in an  *)
(* animation frame callback, whose state changes React commits in a later  *)
(* task).                                                                  *)
(*                                                                         *)
(* Left out: the sound engine, the starfield, the screen shake, colours,   *)
(* the particles' positions and the power-ups' pulse; the code only draws  *)
(* them.                                                                   *)
(***************************************************************************)
EXTENDS Integers, Sequences, FiniteSets, TLC

VARIABLES
    gameState,        \* useState, line 239
    isPaused,         \* useState, line 240
    score,            \* useState, line 241
    coins,            \* useState, line 242
    highScore,        \* useState, line 243
    health,           \* useState, line 244
    wave,             \* useState, line 245
    bossHp,           \* useState, line 246: <<>> or <<[current, max]>>
    upgrades,         \* useState, line 249
    neonHigh,         \* localStorage item 'neonHigh' (as a number)
    canvas,           \* canvas.width, canvas.height, in pixels
    player,           \* gameData.player
    bullets,          \* gameData.bullets
    enemyBullets,     \* gameData.enemyBullets
    enemies,          \* gameData.enemies
    powerups,         \* gameData.powerups
    particles,        \* gameData.particles: each particle's remaining life
    boss,             \* gameData.boss: <<>> (null) or <<the boss>>
    keys,             \* gameData.keys: the set of codes held down
    sinceFire,        \* now - gameData.lastFire
    sinceSpawn,       \* now - gameData.lastEnemySpawn
    elapsed,          \* now - gameData.startTime
    enemiesDefeated,  \* gameData.enemiesDefeated
    shotsFired,       \* gameData.shotsFired
    shotsHit,         \* gameData.shotsHit
    frames,           \* animation frames handled in this behaviour
    last              \* what the last step did (its name and what it observed)

vars == <<gameState, isPaused, score, coins, highScore, health, wave, bossHp,
          upgrades, neonHigh, canvas, player, bullets, enemyBullets, enemies,
          powerups, particles, boss, keys, sinceFire, sinceSpawn, elapsed,
          enemiesDefeated, shotsFired, shotsHit, frames, last>>

(***************************************************************************)
(* The program's constants, in tenths of a pixel where they are lengths.   *)
(***************************************************************************)
PlayerW == 400
PlayerH == 400
EnemyW == 400
EnemyH == 400
BossW == 2200
BossH == 1400
PowerUpW == 300
BulletVy == -150
SideBulletVy == -140
SideBulletVx == 40
EnemyBulletVy == 70
PowerUpVy == 18
ShieldInvul == 40
HitInvul == 80
PowerUpFrames == 600
HealAmount == 30
EnemyBulletDamage == 15
BossContactDamage == 25
EnemyContactDamage == 20
EnemyScore == 50
EnemyCoins == 10
BossScore == 2000
BossCoins == 150
KillParticles == 10
ParticleLife == 50
BossDeathFrames == 180
SpiralFrames == 450
HomingFrames == 350
ChargeHoldFrames == 60
BossEntryY == 1200
BossStartY == -2000
BossResetY == -2500
EnemiesPerWave == 15
BaseCooldown == 250
RapidCooldown == 80
MinSpawnRate == 250
BaseSpawnRate == 1800

(***************************************************************************)
(* Arithmetic.                                                             *)
(***************************************************************************)
Max(a, b) == IF a >= b THEN a ELSE b
Min(a, b) == IF a <= b THEN a ELSE b

\* a / b rounded towards zero
TruncDiv(a, b) == IF a >= 0 THEN a \div b ELSE -((-a) \div b)

\* Math.sin of m thousandths of a radian, in thousandths (Bhaskara I)
Sin1000(m) ==
    LET r == m % 6283
        h == IF r < 3142 THEN r ELSE Min(r - 3142, 3141)
        p == h * (3142 - h)
        v == (16 * p) \div ((49360820 - 4 * p) \div 1000)
    IN  IF r < 3142 THEN v ELSE -v

Cos1000(m) == Sin1000(m + 1571)

RECURSIVE SqrtIter(_, _)
SqrtIter(n, x) ==
    LET y == (x + n \div x) \div 2
    IN  IF y >= x THEN x ELSE SqrtIter(n, y)

\* Math.sqrt, rounded down
Isqrt(n) == IF n <= 0 THEN 0 ELSE SqrtIter(n, n)

\* seq without its i-th element: Array.prototype.splice(i - 1, 1).  Past the
\* end of the array splice removes nothing.
Splice(seq, i) ==
    IF i < 1 \/ i > Len(seq) THEN seq
    ELSE SubSeq(seq, 1, i - 1) \o SubSeq(seq, i + 1, Len(seq))

\* the canvas width and height in tenths of a pixel
CW(cv) == cv.w * 10
CH(cv) == cv.h * 10

(***************************************************************************)
(* Entities.                                                               *)
(***************************************************************************)

\* new Projectile(x, y, vx, vy)
Projectile(x, y, vx, vy) == [x |-> x, y |-> y, vx |-> vx, vy |-> vy]

\* Projectile.update
ProjectileUpdate(b) == [b EXCEPT !.x = b.x + b.vx, !.y = b.y + b.vy]

\* new PowerUp(x, y, type)
PowerUp(x, y, type) == [x |-> x, y |-> y, type |-> type]

\* PowerUp.update
PowerUpUpdate(p) == [p EXCEPT !.y = p.y + PowerUpVy]

EnemyTypes == {"BASIC", "SINE", "DIVER", "ZIGZAG", "SCOUT"}
PowerUpTypes == {"RAPID_FIRE", "SHIELD", "TRIPLE_SHOT", "HEAL"}

\* new Enemy(canvasWidth, type, speedBase); startX stands for
\* Math.random() * (canvasWidth - 40)
Enemy(startX, type, speedBase) ==
    [ x        |-> startX,
      y        |-> -500,
      startX   |-> startX,
      type     |-> type,
      timer    |-> 0,
      hp       |-> IF type = "DIVER" THEN 3 ELSE 1,
      canShoot |-> type \in {"SINE", "SCOUT"},
      s        |-> CASE type = "SINE"   -> (speedBase * 9) \div 10
                     [] type = "DIVER"  -> (speedBase * 6) \div 10
                     [] type = "ZIGZAG" -> (speedBase * 13) \div 10
                     [] type = "SCOUT"  -> (speedBase * 15) \div 10
                     [] OTHER           -> speedBase ]

\* Enemy.update(canvasWidth)
EnemyUpdate(e, cw) ==
    LET t == e.timer + 1
        ny == IF e.type = "DIVER" /\ e.y >= 2500
              THEN e.y + (e.s * 9) \div 2
              ELSE e.y + e.s
        nx == CASE e.type = "SINE"   -> e.startX + TruncDiv(Sin1000(t * 40) * 1200, 1000)
                [] e.type = "ZIGZAG" -> e.x + TruncDiv(Sin1000(t * 150) * 100, 1000)
                [] e.type = "SCOUT"  -> IF t % 100 < 50 THEN e.x + 25 ELSE e.x - 25
                [] OTHER             -> e.x
    IN  [e EXCEPT !.timer = t, !.y = ny,
                  !.x = Max(0, Min(cw - EnemyW, nx))]

BossStates == {"ENTRY", "SPIRAL", "HOMING", "CHARGE", "DYING"}

\* new Boss(canvasWidth, maxHp)
Boss(cw, maxHp) ==
    [ x |-> cw \div 2 - 1100, y |-> BossStartY, hp |-> maxHp, maxHp |-> maxHp,
      angle |-> 0, state |-> "ENTRY", stateTimer |-> 0, deathTimer |-> 0 ]

\* Boss.angle grows by 0.03 a frame and is only read through Math.sin: the
\* model counts the steps of 0.03 within one turn (2 pi / 0.03 = 209.4)
AngleSteps == 209

\* Boss.update (lines 203-232) by the state it finds; b1 is the boss with its
\* stateTimer counted up (line 204)

\* an ENTRY state that starts over in every frame and never comes down
BossEntryStays(b1) == [b1 EXCEPT !.stateTimer = 0]

\* lines 205-207
BossEntry(b1) ==
    IF b1.y < BossEntryY THEN [b1 EXCEPT !.y = b1.y + 20]
    ELSE [b1 EXCEPT !.state = "SPIRAL"]

\* a SPIRAL state that ends in CHARGE
BossSpiralCharges(b1, cw) ==
    LET a == (b1.angle + 1) % AngleSteps
        b2 == [b1 EXCEPT !.angle = a,
                         !.x = (cw \div 2 - 1100)
                               + TruncDiv(Sin1000(a * 30) * 2000, 1000)]
    IN  IF b1.stateTimer > SpiralFrames
        THEN [b2 EXCEPT !.state = "CHARGE", !.stateTimer = 0]
        ELSE b2

\* lines 208-211
BossSpiral(b1, cw) ==
    LET a == (b1.angle + 1) % AngleSteps
        b2 == [b1 EXCEPT !.angle = a,
                         !.x = (cw \div 2 - 1100)
                               + TruncDiv(Sin1000(a * 30) * 2000, 1000)]
    IN  IF b1.stateTimer > SpiralFrames
        THEN [b2 EXCEPT !.state = "HOMING", !.stateTimer = 0]
        ELSE b2

\* lines 212-216; rnd stands for (Math.random() - 0.5) in tenths
BossHoming(b1, cw, rnd) ==
    LET b2 == [b1 EXCEPT
                 !.y = BossEntryY
                       + TruncDiv(Sin1000(b1.stateTimer * 40) * 600, 1000),
                 !.x = Max(500, Min(cw - BossW - 500, b1.x + rnd * 20))]
    IN  IF b1.stateTimer > HomingFrames
        THEN [b2 EXCEPT !.state = "CHARGE", !.stateTimer = 0]
        ELSE b2

\* lines 217-226
BossCharge(b1, ch) ==
    IF b1.stateTimer < ChargeHoldFrames THEN [b1 EXCEPT !.y = b1.y - 20]
    ELSE IF b1.y + 220 > ch + 1500
         THEN [b1 EXCEPT !.y = BossResetY, !.state = "ENTRY", !.stateTimer = 0]
         ELSE [b1 EXCEPT !.y = b1.y + 220]

\* lines 227-231
BossDying(b1, rnd) ==
    [b1 EXCEPT !.deathTimer = b1.deathTimer + 1, !.y = b1.y + 4,
               !.x = b1.x + rnd * 8]

\* Boss.update whose last branch (line 217) is a plain else
BossUpdateChargesOn(b, cw, ch, rnd) ==
    CASE b.state = "ENTRY"  -> BossEntry([b EXCEPT !.stateTimer = @ + 1])
      [] b.state = "SPIRAL" -> BossSpiral([b EXCEPT !.stateTimer = @ + 1], cw)
      [] b.state = "HOMING" ->
            BossHoming([b EXCEPT !.stateTimer = @ + 1], cw, rnd)
      [] OTHER              -> BossCharge([b EXCEPT !.stateTimer = @ + 1], ch)

\* Boss.update(canvasWidth, canvasHeight)
BossUpdate(b, cw, ch, rnd) ==
    CASE b.state = "ENTRY"  -> BossEntry([b EXCEPT !.stateTimer = @ + 1])
      [] b.state = "SPIRAL" -> BossSpiral([b EXCEPT !.stateTimer = @ + 1], cw)
      [] b.state = "HOMING" ->
            BossHoming([b EXCEPT !.stateTimer = @ + 1], cw, rnd)
      [] b.state = "CHARGE" -> BossCharge([b EXCEPT !.stateTimer = @ + 1], ch)
      [] OTHER              -> BossDying([b EXCEPT !.stateTimer = @ + 1], rnd)

(***************************************************************************)
(* The frame.  update (lines 365-536) works on gameData in place and       *)
(* queues React updates; g is that working state: the gameData fields,     *)
(* the React values as the queued updaters leave them (health, score,      *)
(* coins, wave, bossHp, gs for gameState), late (a setGameState('GAMEOVER')*)
(* issued by the health updater while React renders, after every queued   *)
(* setGameState), and what the frame observed: td (the calls of           *)
(* takeDamage), kills (runs of the kill branch, lines 509-519), destroyed  *)
(* (enemies whose hp a hit took from above 0 to 0 or below), rammed,       *)
(* spawned, bossKills and diedIn (the state the boss was in when a hit     *)
(* made it DYING), left (the player's bullets removed for having left the  *)
(* field, line 401), fell (the enemies removed past the bottom, line 500), *)
(* since and fired (now - lastFire as fire() would find it, and the        *)
(* projectiles it pushed), heals (the HEAL power-ups collected) and key    *)
(* (the upgrade an UPGRADE button asked for).                              *)
(***************************************************************************)

\* a.x < b.x + b.w && a.x + a.w > b.x && a.y < b.y + b.h && a.y + a.h > b.y
Overlap(ax, ay, aw, ah, bx, by, bw, bh) ==
    ax < bx + bw /\ ax + aw > bx /\ ay < by + bh /\ ay + ah > by

\* b.x > x && b.x < x + w && b.y > y && b.y < y + h
Inside(b, x, y, w, h) == b.x > x /\ b.x < x + w /\ b.y > y /\ b.y < y + h

\* takeDamage with a shield that is not used up by the hit it absorbs
TakeDamageShieldKept(g, amt, eager) ==
    IF g.player.shield > 0
    THEN [g EXCEPT !.player.invul = ShieldInvul]
    ELSE IF g.health - amt <= 0
    THEN [g EXCEPT !.health = 0,
                   !.gs = IF eager THEN "GAMEOVER" ELSE @,
                   !.late = IF eager THEN @ ELSE TRUE,
                   !.player.invul = HitInvul]
    ELSE [g EXCEPT !.health = g.health - amt, !.player.invul = HitInvul]

\* takeDamage(amt).  eager: React ran the health updater at the call (the
\* first update queued on an idle component), so that its setGameState is
\* queued at once; otherwise the updater runs when React renders.
TakeDamage(g, amt, eager) ==
    LET next == g.health - amt
    IN  IF g.player.shield > 0
        THEN [g EXCEPT !.player.shield = 0, !.player.invul = ShieldInvul]
        ELSE IF next <= 0
        THEN [g EXCEPT !.health = 0,
                       !.gs = IF eager THEN "GAMEOVER" ELSE @,
                       !.late = IF eager THEN @ ELSE TRUE,
                       !.player.invul = HitInvul]
        ELSE [g EXCEPT !.health = next, !.player.invul = HitInvul]

\* a call of takeDamage, with what it found and what it left noted in td
Noted(g, h, amt) ==
    [h EXCEPT !.td = Append(@,
        [ amt |-> amt, shield |-> g.player.shield, health |-> g.health,
          invul |-> g.player.invul,
          dying |-> g.boss # <<>> /\ g.boss[1].state = "DYING",
          shieldAfter |-> h.player.shield, invulAfter |-> h.player.invul,
          healthAfter |-> h.health,
          over |-> h.late \/ h.gs = "GAMEOVER" ])]

Damage(g, amt, eager) == Noted(g, TakeDamage(g, amt, eager), amt)

\* fire()
\* a fire() that does not look at the time of the last shot
FireAtWill(g, up) ==
    LET p == g.player
        px == p.x + 180
        py == p.y
    IN  [g EXCEPT
            !.shotsFired = @ + 1,
            !.bullets = @ \o
                (IF p.tripleShot > 0
                 THEN << Projectile(px, py, 0, BulletVy),
                         Projectile(px, py, -SideBulletVx, SideBulletVy),
                         Projectile(px, py, SideBulletVx, SideBulletVy) >>
                 ELSE << Projectile(px, py, 0, BulletVy) >>),
            !.fired = IF p.tripleShot > 0 THEN 3 ELSE 1,
            !.sinceFire = 0]

\* fire (lines 316-334); sinceFire is now - lastFire
Fire(g, up) ==
    LET p == g.player
        base == IF p.rapidFire > 0 THEN RapidCooldown ELSE BaseCooldown
        px == p.x + 180
        py == p.y
    IN  IF g.sinceFire * (5 + up.fireRate) > base * 5
        THEN [g EXCEPT
                !.shotsFired = @ + 1,
                !.bullets = @ \o
                    (IF p.tripleShot > 0
                     THEN << Projectile(px, py, 0, BulletVy),
                             Projectile(px, py, -SideBulletVx, SideBulletVy),
                             Projectile(px, py, SideBulletVx, SideBulletVy) >>
                     ELSE << Projectile(px, py, 0, BulletVy) >>),
                !.fired = IF p.tripleShot > 0 THEN 3 ELSE 1,
                !.sinceFire = 0]
        ELSE g

\* lines 371-373: the held keys accelerate the player
Steer(g, up, held) ==
    LET speed == 18 + up.speed * 3
        v1 == IF "ArrowLeft" \in held \/ "KeyA" \in held
              THEN g.player.vx - speed ELSE g.player.vx
        v2 == IF "ArrowRight" \in held \/ "KeyD" \in held
              THEN v1 + speed ELSE v1
    IN  [g EXCEPT !.player.vx = v2]

\* 240000 * diffMult, line 377
DiffMult(w, el) == 240000 + 60000 * w + el

\* enemySpeed, line 378
EnemySpeed(w, el) == (24 * DiffMult(w, el)) \div 240000

\* time - lastEnemySpawn > spawnRate, lines 379 and 435
SpawnDue(since, w, el) ==
    /\ since > MinSpawnRate
    /\ since * (DiffMult(w, el) \div 100) > BaseSpawnRate * 2400

\* a boss spawned whatever the number of enemies defeated
SpawnBossAlways(g, w, cw, boss0) ==
    IF boss0 = <<>>
    THEN [g EXCEPT !.boss = << Boss(cw, 150 + w * 100) >>]
    ELSE g

\* lines 381-385
SpawnBoss(g, w, cw, boss0) ==
    IF g.enemiesDefeated >= w * EnemiesPerWave /\ boss0 = <<>>
    THEN [g EXCEPT !.boss = << Boss(cw, 150 + w * 100) >>]
    ELSE g

\* vx *= 0.86
Damp(vx) == TruncDiv(vx * 86, 100)

\* the clamp without its lower limit
ClampXNoFloor(x, cw) == Min(cw - PlayerW, x)

\* Math.max(0, Math.min(canvas.width - player.w, x))
ClampX(x, cw) == Max(0, Min(cw - PlayerW, x))

\* lines 387-393
MovePlayer(g, cw) ==
    LET p == g.player
        vx == Damp(p.vx)
        dec(n) == IF n > 0 THEN n - 1 ELSE n
    IN  [g EXCEPT !.player =
            [p EXCEPT !.vx = vx, !.x = ClampX(p.x + vx, cw),
                      !.invul = dec(p.invul), !.shield = dec(p.shield),
                      !.rapidFire = dec(p.rapidFire),
                      !.tripleShot = dec(p.tripleShot)]]

\* the test of line 400 without its first condition
BulletGoneSides(b, cw) == b.x < -500 \/ b.x > cw + 500

\* lines 398-403
BulletGone(b, cw) == b.y < -500 \/ b.x < -500 \/ b.x > cw + 500

BulletLoop(bs, cw) ==
    SelectSeq([k \in 1..Len(bs) |-> ProjectileUpdate(bs[k])],
              LAMBDA b : ~BulletGone(b, cw))

\* lines 405-416
EnemyBulletTurn(g, i, b, cw, ch, eager) ==
    IF b.y > ch + 500 \/ b.y < -2500 \/ b.x < -2500 \/ b.x > cw + 2500
    THEN [g EXCEPT !.enemyBullets = Splice(@, i)]
    ELSE IF g.player.invul = 0
            /\ Inside(b, g.player.x, g.player.y, PlayerW, PlayerH)
    THEN [Damage(g, EnemyBulletDamage, eager)
            EXCEPT !.enemyBullets = Splice(@, i)]
    ELSE [g EXCEPT !.enemyBullets[i] = b]

RECURSIVE EnemyBulletLoop(_, _, _, _, _)
EnemyBulletLoop(g, i, cw, ch, eager) ==
    IF i < 1 THEN g
    ELSE EnemyBulletLoop(
            EnemyBulletTurn(g, i, ProjectileUpdate(g.enemyBullets[i]), cw, ch,
                            eager),
            i - 1, cw, ch, eager)

\* a HEAL that adds its 30 whatever maxHealth is
CollectUncapped(g, type, up) ==
    CASE type = "RAPID_FIRE"  -> [g EXCEPT !.player.rapidFire = PowerUpFrames]
      [] type = "SHIELD"      -> [g EXCEPT !.player.shield = PowerUpFrames]
      [] type = "TRIPLE_SHOT" -> [g EXCEPT !.player.tripleShot = PowerUpFrames]
      [] OTHER ->
            [g EXCEPT !.health = @ + HealAmount,
                      !.heals = Append(@,
                            [ health |-> g.health,
                              healthAfter |-> g.health + HealAmount ])]

\* lines 427-430
Collect(g, type, up) ==
    CASE type = "RAPID_FIRE"  -> [g EXCEPT !.player.rapidFire = PowerUpFrames]
      [] type = "SHIELD"      -> [g EXCEPT !.player.shield = PowerUpFrames]
      [] type = "TRIPLE_SHOT" -> [g EXCEPT !.player.tripleShot = PowerUpFrames]
      [] OTHER ->
            [g EXCEPT !.health = Min(up.maxHealth, @ + HealAmount),
                      !.heals = Append(@,
                            [ health |-> g.health,
                              healthAfter |-> Min(up.maxHealth,
                                                  g.health + HealAmount) ])]

\* lines 418-433
PowerUpTurn(g, i, q, ch, up) ==
    IF q.y > ch
    THEN [g EXCEPT !.powerups = Splice(@, i)]
    ELSE IF Overlap(q.x, q.y, PowerUpW, PowerUpW,
                    g.player.x, g.player.y, PlayerW, PlayerH)
    THEN [Collect(g, q.type, up) EXCEPT !.powerups = Splice(@, i)]
    ELSE [g EXCEPT !.powerups[i] = q]

RECURSIVE PowerUpLoop(_, _, _, _)
PowerUpLoop(g, i, ch, up) ==
    IF i < 1 THEN g
    ELSE PowerUpLoop(PowerUpTurn(g, i, PowerUpUpdate(g.powerups[i]), ch, up),
                     i - 1, ch, up)

\* lines 436-441: r stands for Math.random() in hundredths
EnemyTypeOf(r) ==
    IF r > 90 THEN "DIVER"
    ELSE IF r > 75 THEN "SCOUT"
    ELSE IF r > 60 THEN "ZIGZAG"
    ELSE IF r > 40 THEN "SINE"
    ELSE "BASIC"

\* lines 435-444: sx stands for Math.random() in quarters
SpawnEnemy(g, boss0, w, el, cw, r, sx) ==
    IF boss0 = <<>> /\ SpawnDue(g.sinceSpawn, w, el)
    THEN [g EXCEPT
            !.enemies = Append(@, Enemy(TruncDiv(sx * (cw - EnemyW), 4),
                                        EnemyTypeOf(r), EnemySpeed(w, el))),
            !.sinceSpawn = 0,
            !.spawned = @ + 1]
    ELSE g

\* lines 450-453: the spiral shot
SpiralShot(g, b) ==
    IF b.state = "SPIRAL" /\ b.stateTimer % 12 = 0
    THEN [g EXCEPT !.enemyBullets = Append(@,
            Projectile(b.x + BossW \div 2, b.y + BossH,
                       TruncDiv(Cos1000(b.stateTimer * 150) * 50, 1000),
                       TruncDiv(Sin1000(b.stateTimer * 150) * 50, 1000) + 30))]
    ELSE g

\* lines 454-459: the aimed shot
HomingShot(g, b) ==
    IF b.state = "HOMING" /\ b.stateTimer % 50 = 0
    THEN LET dx == (g.player.x + 200) - (b.x + BossW \div 2)
             dy == (g.player.y + 200) - (b.y + BossH)
             d0 == Isqrt(dx * dx + dy * dy)
             dist == IF d0 = 0 THEN 1 ELSE d0
         IN  [g EXCEPT !.enemyBullets = Append(@,
                Projectile(b.x + BossW \div 2, b.y + BossH,
                           TruncDiv(dx * 80, dist), TruncDiv(dy * 80, dist)))]
    ELSE g

\* lines 460-472: the player's bullets against the boss; b is the boss object
RECURSIVE BossHitLoop(_, _, _)
BossHitLoop(g, bi, up) ==
    IF bi < 1 THEN g
    ELSE LET b == g.boss[1]
             s == g.bullets[bi]
         IN  IF Inside(s, b.x, b.y, BossW, BossH)
             THEN BossHitLoop(
                    [g EXCEPT
                       !.boss[1].hp = b.hp - up.damage,
                       !.boss[1].state = IF b.hp - up.damage <= 0
                                         THEN "DYING" ELSE b.state,
                       !.shotsHit = @ + 1,
                       !.bullets = Splice(@, bi),
                       !.diedIn = IF b.hp - up.damage <= 0 /\ b.state # "DYING"
                                  THEN b.state ELSE @],
                    bi - 1, up)
             ELSE BossHitLoop(g, bi - 1, up)

\* lines 473-475: the boss touches the player
BossContact(g) ==
    LET b == g.boss[1]
        p == g.player
    IN  IF p.invul = 0
           /\ Overlap(b.x, b.y, BossW, BossH, p.x, p.y, PlayerW, PlayerH)
        THEN Damage(g, BossContactDamage, FALSE)
        ELSE g

\* a death that completes after half the time
BossDeathEarly(g) ==
    IF 2 * g.boss[1].deathTimer > BossDeathFrames
        THEN [g EXCEPT  !.score = @ + BossScore,
                        !.coins = @ + BossCoins,
                        !.wave = @ + 1,
                        !.enemiesDefeated = 0,
                        !.boss = <<>>,
                        !.bossHp = <<>>,
                        !.gs = "SHOP",
                        !.bossKills = @ + 1]
        ELSE g

\* lines 476-490: the dying boss
BossDeath(g) ==
    IF g.boss[1].deathTimer > BossDeathFrames
        THEN [g EXCEPT  !.particles = IF g.boss[1].deathTimer % 5 = 0
                                      THEN Append(@, ParticleLife) ELSE @,
                        !.score = @ + BossScore,
                        !.coins = @ + BossCoins,
                        !.wave = @ + 1,
                        !.enemiesDefeated = 0,
                        !.boss = <<>>,
                        !.bossHp = <<>>,
                        !.gs = "SHOP",
                        !.bossKills = @ + 1]
        ELSE [g EXCEPT !.particles = IF g.boss[1].deathTimer % 5 = 0
                                     THEN Append(@, ParticleLife) ELSE @]

\* lines 446-491; boss0 is the boss the frame started with (line 368)
\* lines 448-490, b being the boss as Boss.update left it
BossAct(g, b, up) ==
    IF b.state # "DYING"
    THEN BossContact(
            BossHitLoop(HomingShot(SpiralShot(g, b), b), Len(g.bullets), up))
    ELSE BossDeath(g)

BossMoved(g, b, up) ==
    BossAct([g EXCEPT !.boss[1] = b,
                      !.bossHp = << [current |-> b.hp, max |-> b.maxHp] >>],
            b, up)

BossStep(g, boss0, cw, ch, up, rnd) ==
    IF boss0 = <<>> THEN g
    ELSE BossMoved(g, BossUpdate(g.boss[1], cw, ch, rnd), up)

\* lines 509-519: the enemy at index i is destroyed; drop stands for the
\* two Math.random() draws of lines 516 and 518
Kill(g, i, e, drop) ==
    [g EXCEPT
        !.enemies = Splice(@, i),
        !.enemiesDefeated = @ + 1,
        !.score = @ + EnemyScore,
        !.coins = @ + EnemyCoins,
        !.particles = @ \o [k \in 1..KillParticles |-> ParticleLife],
        !.powerups = IF drop \in PowerUpTypes
                     THEN Append(@, PowerUp(e.x, e.y, drop)) ELSE @,
        !.kills = @ + 1]

\* a hit that leaves the enemy in the collection whatever hp it is left with
EnemyHitKept(g, i, e, e1, bi, drop) ==
    [g EXCEPT !.shotsHit = @ + 1, !.bullets = Splice(@, bi),
              !.enemies[i] = e1]

\* lines 506-522: a bullet hit e, the enemy object the enemy loop took from
\* index i, and left it with e1.hp
EnemyHit(g, i, e, e1, bi, drop) ==
    IF e1.hp <= 0
    THEN Kill([g EXCEPT !.shotsHit = @ + 1, !.bullets = Splice(@, bi),
                        !.destroyed = IF e.hp > 0 THEN @ + 1 ELSE @],
              i, e1, drop)
    ELSE [g EXCEPT !.shotsHit = @ + 1, !.bullets = Splice(@, bi),
                   !.enemies[i] = e1]

Hurt(e, up) == [e EXCEPT !.hp = e.hp - up.damage]

RECURSIVE EnemyHitLoop(_, _, _, _, _, _)
EnemyHitLoop(g, i, e, bi, up, drop) ==
    IF bi < 1 THEN [g |-> g, e |-> e]
    ELSE IF Inside(g.bullets[bi], e.x, e.y, EnemyW, EnemyH)
    THEN EnemyHitLoop(EnemyHit(g, i, e, Hurt(e, up), bi, drop), i, Hurt(e, up),
                      bi - 1, up, drop)
    ELSE EnemyHitLoop(g, i, e, bi - 1, up, drop)

\* the contact of lines 525-528 without its test of player.invul
EnemyContactAlways(g, i, e) ==
    LET p == g.player
    IN  IF Overlap(e.x, e.y, EnemyW, EnemyH, p.x, p.y, PlayerW, PlayerH)
        THEN Damage([g EXCEPT !.enemies = Splice(@, i),
                              !.rammed = @ + 1],
                    EnemyContactDamage, FALSE)
        ELSE g

\* lines 525-528: the enemy object e touches the player
EnemyContact(g, i, e) ==
    LET p == g.player
    IN  IF Overlap(e.x, e.y, EnemyW, EnemyH, p.x, p.y, PlayerW, PlayerH)
           /\ p.invul = 0
        THEN Damage([g EXCEPT !.enemies = Splice(@, i),
                              !.rammed = @ + 1],
                    EnemyContactDamage, FALSE)
        ELSE g

EnemyTouch(r, i) == EnemyContact(r.g, i, r.e)

\* lines 496-498
EnemyShot(g, i, e, shoot) ==
    IF e.canShoot /\ i \in shoot
    THEN [g EXCEPT !.enemies[i] = e,
                   !.enemyBullets = Append(@,
                        Projectile(e.x + 200, e.y + 400, 0, EnemyBulletVy))]
    ELSE [g EXCEPT !.enemies[i] = e]

\* lines 499-528 for the enemy e of index i
EnemyFate(g, i, e, ch, up, drop) ==
    IF e.y > ch + 600
    THEN [g EXCEPT !.enemies = Splice(@, i), !.fell = @ + 1]
    ELSE EnemyTouch(EnemyHitLoop(g, i, e, Len(g.bullets), up, drop), i)

EnemyTurn(g, i, e, ch, up, shoot, drop) ==
    EnemyFate(EnemyShot(g, i, e, shoot), i, e, ch, up, drop)

\* lines 493-529; shoot is the set of indices whose Math.random() of line
\* 496 came out below the enemy's shoot rate
RECURSIVE EnemyLoop(_, _, _, _, _, _, _)
EnemyLoop(g, i, cw, ch, up, shoot, drop) ==
    IF i < 1 THEN g
    ELSE EnemyLoop(EnemyTurn(g, i, EnemyUpdate(g.enemies[i], cw), ch, up,
                             shoot, drop),
                   i - 1, cw, ch, up, shoot, drop)

\* lines 531-534: Particle.update and the removal of the dead particles
ParticleLoop(ps) ==
    LET aged == [k \in 1..Len(ps) |-> ps[k] - 1]
    IN  SelectSeq(aged, LAMBDA l : l > 0)

(***************************************************************************)
(* Bounds of the model.                                                    *)
(***************************************************************************)
\* the run's age beyond which the model no longer lets the difficulty grow
MaxElapsed == 120000

\* what a step that is no frame notes in last
Quiet(op) ==
    [ op |-> op, ran |-> FALSE, td |-> <<>>, kills |-> 0, destroyed |-> 0,
      rammed |-> 0, spawned |-> 0, bossKills |-> 0, diedIn |-> "", left |-> 0,
      fell |-> 0, since |-> 0, fired |-> 0, heals |-> <<>>, key |-> "" ]

\* resize (lines 355-361), which also runs whenever the effect is re-run
\* (line 362): the player is put back to the middle of the canvas
Recentre(p, cv) ==
    [p EXCEPT !.x = CW(cv) \div 2 - 200, !.y = CH(cv) - 1200]

\* the effect of lines 349-625 after a commit: re-run when gameState,
\* isPaused or upgrades changed (line 625)
Effect(p, cv, changed) == IF changed THEN Recentre(p, cv) ELSE p

\* the item written with the score of every run that ends
StoredOverwritten(stored, sc, gs) == IF gs = "GAMEOVER" THEN sc ELSE stored

\* what localStorage holds under 'neonHigh' once a frame has been handled
\* with the run's score at sc: no line of the program writes the item
StoredAfter(stored, sc, gs) == stored

\* the body of update past its first line (lines 368-535)
Input(g, up, held) ==
    IF "Space" \in held THEN Fire(Steer(g, up, held), up) ELSE Steer(g, up, held)

Bullets(g, cw) ==
    [g EXCEPT !.bullets = BulletLoop(@, cw),
              !.left = Len(g.bullets) - Len(BulletLoop(g.bullets, cw))]

EnemyBullets(g, cw, ch, eager) ==
    EnemyBulletLoop(g, Len(g.enemyBullets), cw, ch, eager)

PowerUps(g, ch, up) == PowerUpLoop(g, Len(g.powerups), ch, up)

Enemies(g, cw, ch, up, shoot, drop) ==
    EnemyLoop(g, Len(g.enemies), cw, ch, up, shoot, drop)

Particles(g) == [g EXCEPT !.particles = ParticleLoop(@)]

Simulate(g0, inp, cv, up, w, el, held) ==
    Particles(
     Enemies(
      BossStep(
       SpawnEnemy(
        PowerUps(
         EnemyBullets(
          Bullets(
           MovePlayer(
            SpawnBoss(Input(g0, up, held), w, CW(cv), g0.boss),
            CW(cv)),
           CW(cv)),
          CW(cv), CH(cv), inp.eager),
         CH(cv), up),
        g0.boss, w, el, CW(cv), inp.r, inp.sx),
       g0.boss, CW(cv), CH(cv), up, inp.rnd),
      CW(cv), CH(cv), up, inp.shoot, inp.drop))

\* the guard of line 366 without its isPaused
RunsPaused(gs, paused) == gs = "PLAYING"

\* update (line 366): nothing happens unless the game is being played
Runs(gs, paused) == gs = "PLAYING" /\ ~paused

\* One animation frame (line 607): update(t), then React's commit of what
\* it queued.  inp: the time since the last frame and the frame's
\* Math.random() draws.
Frame0(inp) ==
              [ player |-> player, bullets |-> bullets,
                enemyBullets |-> enemyBullets, enemies |-> enemies,
                powerups |-> powerups, particles |-> particles, boss |-> boss,
                enemiesDefeated |-> enemiesDefeated,
                shotsFired |-> shotsFired, shotsHit |-> shotsHit,
                sinceFire |-> Min(sinceFire + inp.dt, BaseCooldown),
                sinceSpawn |-> Min(sinceSpawn + inp.dt, BaseSpawnRate),
                health |-> health, score |-> score, coins |-> coins,
                wave |-> wave, gs |-> gameState, late |-> FALSE,
                bossHp |-> bossHp, td |-> <<>>, kills |-> 0, destroyed |-> 0,
                rammed |-> 0, spawned |-> 0, bossKills |-> 0, diedIn |-> "",
                left |-> 0, fell |-> 0,
                since |-> Min(sinceFire + inp.dt, BaseCooldown), fired |-> 0,
                heals |-> <<>>, key |-> "" ]

\* the gameState React commits: the updater's setGameState comes last
Committed(g) == IF g.late THEN "GAMEOVER" ELSE g.gs

\* pressed: the keys whose keydown is handled after update(t) and before
\* React commits what update queued.  These handlers are those of the last
\* commit (line 610 is registered by the effect), so that P is tested
\* against the gameState update started with.
FrameAndKeys(inp, pressed) ==
    \E el \in {Min(elapsed + inp.dt, MaxElapsed)} :
    \E toggle \in {"KeyP" \in pressed /\ gameState = "PLAYING"} :
    \E ran \in {Runs(gameState, isPaused)} :
    \E g \in {IF ran
              THEN Simulate(Frame0(inp), inp, canvas, upgrades, wave, el, keys)
              ELSE Frame0(inp)} :
    \E gs1 \in {Committed(g)} :
        /\ gameState' = gs1
        /\ health' = g.health
        /\ score' = g.score
        /\ coins' = g.coins
        /\ wave' = g.wave
        /\ bossHp' = g.bossHp
        /\ neonHigh' = StoredAfter(neonHigh, g.score, gs1)
        /\ player' = Effect(g.player, canvas, gs1 # gameState \/ toggle)
        /\ isPaused' = IF toggle THEN ~isPaused ELSE isPaused
        /\ keys' = keys \cup pressed
        /\ bullets' = g.bullets
        /\ enemyBullets' = g.enemyBullets
        /\ enemies' = g.enemies
        /\ powerups' = g.powerups
        /\ particles' = g.particles
        /\ boss' = g.boss
        /\ sinceFire' = g.sinceFire
        /\ sinceSpawn' = g.sinceSpawn
        /\ elapsed' = el
        /\ enemiesDefeated' = g.enemiesDefeated
        /\ shotsFired' = g.shotsFired
        /\ shotsHit' = g.shotsHit
        /\ last' = [ op |-> IF pressed = {} THEN "update" ELSE "updateKeydown",
                     ran |-> ran, td |-> g.td,
                     kills |-> g.kills, destroyed |-> g.destroyed,
                     rammed |-> g.rammed, spawned |-> g.spawned,
                     bossKills |-> g.bossKills, diedIn |-> g.diedIn,
                     left |-> g.left, fell |-> g.fell, since |-> g.since,
                     fired |-> g.fired, heals |-> g.heals, key |-> "" ]
        /\ UNCHANGED <<highScore, upgrades, canvas>>

Update(inp) == FrameAndKeys(inp, {})

\* a startGame that leaves the coins of the last run
StartGameKeepsCoins ==
    /\ gameState \in {"START", "GAMEOVER"}
    /\ gameState' = "PLAYING"
    /\ isPaused' = FALSE
    /\ score' = 0
    /\ coins' = coins
    /\ health' = upgrades.maxHealth
    /\ wave' = 1
    /\ bossHp' = <<>>
    /\ boss' = <<>>
    /\ enemies' = <<>>
    /\ bullets' = <<>>
    /\ enemyBullets' = <<>>
    /\ powerups' = <<>>
    /\ particles' = <<>>
    /\ player' = Effect([player EXCEPT !.invul = 0, !.shield = 0,
                                       !.rapidFire = 0, !.tripleShot = 0,
                                       !.vx = 0],
                        canvas, TRUE)
    /\ elapsed' = 0
    /\ sinceSpawn' = 0
    /\ enemiesDefeated' = 0
    /\ shotsFired' = 0
    /\ shotsHit' = 0
    /\ last' = Quiet("startGame")
    /\ UNCHANGED <<highScore, upgrades, neonHigh, canvas, keys, sinceFire, frames>>

\* startGame (lines 288-314), the INITIALIZE and RESTART MISSION buttons
StartGame ==
    /\ gameState \in {"START", "GAMEOVER"}
    /\ gameState' = "PLAYING"
    /\ isPaused' = FALSE
    /\ score' = 0
    /\ coins' = 0
    /\ health' = upgrades.maxHealth
    /\ wave' = 1
    /\ bossHp' = <<>>
    /\ boss' = <<>>
    /\ enemies' = <<>>
    /\ bullets' = <<>>
    /\ enemyBullets' = <<>>
    /\ powerups' = <<>>
    /\ particles' = <<>>
    /\ player' = Effect([player EXCEPT !.invul = 0, !.shield = 0,
                                       !.rapidFire = 0, !.tripleShot = 0,
                                       !.vx = 0],
                        canvas, TRUE)
    /\ elapsed' = 0
    /\ sinceSpawn' = 0
    /\ enemiesDefeated' = 0
    /\ shotsFired' = 0
    /\ shotsHit' = 0
    /\ last' = Quiet("startGame")
    /\ UNCHANGED <<highScore, upgrades, neonHigh, canvas, keys, sinceFire, frames>>

\* onKeyDown (lines 610-613)
KeyDown(code) ==
    LET toggle == code = "KeyP" /\ gameState = "PLAYING"
    IN  /\ keys' = keys \cup {code}
        /\ isPaused' = IF toggle THEN ~isPaused ELSE isPaused
        /\ player' = Effect(player, canvas, toggle)
        /\ last' = Quiet("keydown")
        /\ UNCHANGED <<gameState, score, coins, highScore, health, wave, bossHp,
                       upgrades, neonHigh, canvas, bullets, enemyBullets,
                       enemies, powerups, particles, boss, sinceFire,
                       sinceSpawn, elapsed, enemiesDefeated, shotsFired,
                       shotsHit, frames>>

\* onKeyUp (line 614)
KeyUp(code) ==
    /\ code \in keys
    /\ keys' = keys \ {code}
    /\ last' = Quiet("keyup")
    /\ UNCHANGED <<gameState, isPaused, score, coins, highScore, health, wave,
                   bossHp, upgrades, neonHigh, canvas, player, bullets,
                   enemyBullets, enemies, powerups, particles, boss, sinceFire,
                   sinceSpawn, elapsed, enemiesDefeated, shotsFired, shotsHit,
                   frames>>

\* the window's resize event (lines 355-363); size is the window's new
\* innerWidth and innerHeight
Resize(size) ==
    /\ canvas' = size
    /\ player' = Recentre(player, size)
    /\ last' = Quiet("resize")
    /\ UNCHANGED <<gameState, isPaused, score, coins, highScore, health, wave,
                   bossHp, upgrades, neonHigh, bullets, enemyBullets, enemies,
                   powerups, particles, boss, keys, sinceFire, sinceSpawn,
                   elapsed, enemiesDefeated, shotsFired, shotsHit, frames>>

\* a price that does not grow with the level
UpgradeCostFlat(up, key) == 50

\* cost, lines 628-633
UpgradeCost(up, key) ==
    IF key = "maxHealth" THEN (up.maxHealth * 50) \div 20 ELSE up[key] * 50

\* buyUpgrade (lines 627-643), the shop's UPGRADE buttons
BuyUpgrade(key) ==
    LET cost == UpgradeCost(upgrades, key)
        bought == coins >= cost
    IN  /\ gameState = "SHOP"
        /\ coins' = IF bought THEN coins - cost ELSE coins
        /\ upgrades' = IF bought
                       THEN [upgrades EXCEPT ![key] =
                                @ + (IF key = "maxHealth" THEN 20 ELSE 1)]
                       ELSE upgrades
        /\ player' = Effect(player, canvas, bought)
        /\ last' = [Quiet("buyUpgrade") EXCEPT !.key = key]
        /\ UNCHANGED <<gameState, isPaused, score, highScore, health, wave,
                       bossHp, neonHigh, canvas, bullets, enemyBullets, enemies,
                       powerups, particles, boss, keys, sinceFire, sinceSpawn,
                       elapsed, enemiesDefeated, shotsFired, shotsHit, frames>>

\* Two clicks on UPGRADE buttons that reach the buyUpgrade of one render
\* (dispatched in one task, before React renders again): both read that
\* render's coins and upgrades (lines 628-635), and the updaters of lines
\* 636-640 are applied one after the other.
BuyTwice(k1, k2) ==
    LET c1 == UpgradeCost(upgrades, k1)
        c2 == UpgradeCost(upgrades, k2)
        b1 == coins >= c1
        b2 == coins >= c2
        up1 == IF b1
               THEN [upgrades EXCEPT ![k1] =
                        @ + (IF k1 = "maxHealth" THEN 20 ELSE 1)]
               ELSE upgrades
    IN  /\ gameState = "SHOP"
        /\ coins' = coins - (IF b1 THEN c1 ELSE 0) - (IF b2 THEN c2 ELSE 0)
        /\ upgrades' = IF b2
                       THEN [up1 EXCEPT ![k2] =
                                @ + (IF k2 = "maxHealth" THEN 20 ELSE 1)]
                       ELSE up1
        /\ player' = Effect(player, canvas, b1 \/ b2)
        /\ last' = [Quiet("buyTwice") EXCEPT !.key = k2]
        /\ UNCHANGED <<gameState, isPaused, score, highScore, health, wave,
                       bossHp, neonHigh, canvas, bullets, enemyBullets, enemies,
                       powerups, particles, boss, keys, sinceFire, sinceSpawn,
                       elapsed, enemiesDefeated, shotsFired, shotsHit, frames>>

\* the NEXT WAVE button (line 743)
NextWave ==
    /\ gameState = "SHOP"
    /\ gameState' = "PLAYING"
    /\ health' = upgrades.maxHealth
    /\ player' = Effect(player, canvas, TRUE)
    /\ last' = Quiet("nextWave")
    /\ UNCHANGED <<isPaused, score, coins, highScore, wave, bossHp, upgrades,
                   neonHigh, canvas, bullets, enemyBullets, enemies, powerups,
                   particles, boss, keys, sinceFire, sinceSpawn, elapsed,
                   enemiesDefeated, shotsFired, shotsHit, frames>>

(***************************************************************************)
(* Initial states.  Mounted is the component after its first render and    *)
(* effect (lines 239-273, 349-363, 618).  The game needs hundreds of       *)
(* frames between its events (15 kills before a boss, 250 hits on it), so  *)
(* the specifications also start from states the program is in later in a  *)
(* run; each is given with the run that leads to it.                       *)
(***************************************************************************)

\* what localStorage holds under 'neonHigh' when the page is loaded
StoredScores == {0, 500}

NewPlayer ==
    [ x |-> 0, y |-> 0, vx |-> 0, invul |-> 0, shield |-> 0, rapidFire |-> 0,
      tripleShot |-> 0 ]

Mounted(size, stored) ==
    [ gameState |-> "START", isPaused |-> FALSE, score |-> 0, coins |-> 0,
      highScore |-> stored, health |-> 100, wave |-> 1, bossHp |-> <<>>,
      upgrades |-> [damage |-> 1, fireRate |-> 1, speed |-> 1, maxHealth |-> 100],
      neonHigh |-> stored, canvas |-> size,
      player |-> Recentre(NewPlayer, size),
      bullets |-> <<>>, enemyBullets |-> <<>>, enemies |-> <<>>,
      powerups |-> <<>>, particles |-> <<>>, boss |-> <<>>, keys |-> {},
      sinceFire |-> BaseCooldown, sinceSpawn |-> MinSpawnRate,
      elapsed |-> MinSpawnRate, enemiesDefeated |-> 0, shotsFired |-> 0,
      shotsHit |-> 0 ]

InitFrom(S) ==
    \E sc \in S :
        /\ gameState = sc.gameState
        /\ isPaused = sc.isPaused
        /\ score = sc.score
        /\ coins = sc.coins
        /\ highScore = sc.highScore
        /\ health = sc.health
        /\ wave = sc.wave
        /\ bossHp = sc.bossHp
        /\ upgrades = sc.upgrades
        /\ neonHigh = sc.neonHigh
        /\ canvas = sc.canvas
        /\ player = sc.player
        /\ bullets = sc.bullets
        /\ enemyBullets = sc.enemyBullets
        /\ enemies = sc.enemies
        /\ powerups = sc.powerups
        /\ particles = sc.particles
        /\ boss = sc.boss
        /\ keys = sc.keys
        /\ sinceFire = sc.sinceFire
        /\ sinceSpawn = sc.sinceSpawn
        /\ elapsed = sc.elapsed
        /\ enemiesDefeated = sc.enemiesDefeated
        /\ shotsFired = sc.shotsFired
        /\ shotsHit = sc.shotsHit
        /\ frames = 0
        /\ last = Quiet("init")

(***************************************************************************)
(* Spec: a wave.  The window is 400 by 500 pixels and frames come every    *)
(* 16 ms.  Besides the freshly mounted component the behaviours start in   *)
(* the middle of wave 1, where an enemy has come down the player's column  *)
(* to just above the player and a younger one follows in the left column,  *)
(* and in the shop after the first boss.  The player fires and pauses.     *)
(***************************************************************************)
Field == [w |-> 400, h |-> 500]

\* an enemy n frames after new Enemy(...): n calls of Enemy.update
RECURSIVE Aged(_, _, _)
\* (Older ages an enemy that has been computed)
Older(e, n, cw) == IF e.timer >= 0 THEN Aged(e, n, cw) ELSE e
Aged(e, n, cw) ==
    IF n = 0 THEN e
    ELSE IF n = 1 THEN EnemyUpdate(e, cw)
    ELSE Older(Aged(e, n \div 2, cw), n - n \div 2, cw)

\* the enemy above the player: spawned 38 s into the run, it has come down
\* to 50 pixels above the player
Diving(type) ==
    Aged(Enemy(TruncDiv(2 * (CW(Field) - EnemyW), 4), type,
               EnemySpeed(1, 38000)),
         IF type = "DIVER" THEN 167 ELSE 114, CW(Field))

\* the one that follows it, 35 frames old
Follower ==
    Aged(Enemy(0, "SINE", EnemySpeed(1, 39400)), 35, CW(Field))

\* Wave 1 after `kills` kills and four hits taken (health 20), 40 s into
\* the run.  shield, triple: what is left of the power-ups; shot: an enemy
\* bullet is on its way to the player.
MidWave(kills, type, shield, triple, shot) ==
    [ Mounted(Field, 500) EXCEPT
        !.gameState = "PLAYING",
        !.score = kills * EnemyScore,
        !.coins = kills * EnemyCoins,
        !.health = 20,
        !.enemiesDefeated = kills,
        !.shotsFired = kills + 3,
        !.shotsHit = kills,
        !.player.shield = shield,
        !.player.tripleShot = triple,
        !.enemies = << Diving(type), Follower >>,
        !.enemyBullets = IF shot
                         THEN << Projectile(CW(Field) \div 2, 3620, 0,
                                            EnemyBulletVy) >>
                         ELSE <<>>,
        !.elapsed = 40000,
        !.sinceSpawn = 560 ]

\* the shop after the boss of wave 1: 15 enemies and the boss are worth
\* 2750 points and 300 coins
Shop ==
    [ Mounted(Field, 500) EXCEPT
        !.gameState = "SHOP",
        !.score = EnemiesPerWave * EnemyScore + BossScore,
        !.coins = EnemiesPerWave * EnemyCoins + BossCoins,
        !.health = 60,
        !.wave = 2,
        !.shotsFired = 400,
        !.shotsHit = 265,
        !.elapsed = 100000,
        !.sinceSpawn = BaseSpawnRate ]

\* the enemy bullet reaches the player a frame before the diver does
Crossfire ==
    [ MidWave(6, "DIVER", 300, 0, TRUE) EXCEPT
        !.enemyBullets = << Projectile(CW(Field) \div 2, 3760, 0,
                                       EnemyBulletVy) >> ]

\* two shots, two kills, and the first kill's triple shot picked up
Sharp == [ MidWave(2, "BASIC", 0, 300, FALSE) EXCEPT !.shotsFired = 2 ]

Scenarios ==
    { Mounted(Field, stored) : stored \in StoredScores }
    \cup { Crossfire,
           Sharp,
           MidWave(6, "BASIC", 0, 0, FALSE),
           MidWave(14, "BASIC", 0, 300, FALSE),
           MidWave(6, "DIVER", 300, 0, TRUE),
           MidWave(14, "DIVER", 0, 0, TRUE),
           MidWave(6, "BASIC", 300, 300, FALSE),
           Shop }

\* animation frames in one behaviour of Spec
MaxFrames == 10

\* The Math.random() draws of a frame, as far as the frame can use them:
\* the type of a spawned enemy (BASIC, SINE or DIVER), always in the
\* player's column; one enemy that can shoot does, while no enemy bullet is
\* in flight; a destroyed enemy drops a shield or nothing.
Draws ==
    { [ dt |-> 16, eager |-> eg, r |-> r, sx |-> 2, shoot |-> sh, drop |-> d,
        rnd |-> 0 ] :
        eg \in IF enemyBullets = <<>> THEN {FALSE} ELSE BOOLEAN,
        r \in IF sinceSpawn >= 1000 THEN {20, 50, 95} ELSE {20},
        sh \in IF enemyBullets = <<>> /\ enemies # <<>>
               THEN {{}, {Len(enemies)}} ELSE {{}},
        d \in IF enemies # <<>> THEN {"NONE", "SHIELD"} ELSE {"NONE"} }

Frame ==
    /\ frames < MaxFrames
    /\ frames' = frames + 1
    /\ \E inp \in Draws : Update(inp)

\* the player presses the space bar or P, and lets go of the space bar
Press == \E code \in {"Space", "KeyP"} : KeyDown(code)

Release == KeyUp("Space")

Init == InitFrom(Scenarios)

Next ==
    \/ Frame
    \/ StartGame
    \/ Press
    \/ Release
    \/ NextWave

Spec == Init /\ [][Next]_vars

\* a frame has just ended the run
RunEnds == gameState # "GAMEOVER" /\ gameState' = "GAMEOVER"

\* C1: whenever a run ends (the phase becomes GAMEOVER) with a score greater
\* than the high score stored under 'neonHigh', the stored high score
\* becomes that score.
HighScorePersisted ==
    [][ (RunEnds /\ score' > neonHigh) => neonHigh' = score' ]_vars

\* C2: the stored high score never decreases, and a run that ends with a
\* score not greater than the stored high score leaves it unchanged.
HighScoreKept ==
    [][ /\ neonHigh' >= neonHigh
        /\ (RunEnds /\ score' <= neonHigh) => neonHigh' = neonHigh ]_vars

\* a run has just ended with a score below the stored high score
RunEndedBelow ==
    /\ last.op = "update" /\ last.ran
    /\ gameState = "GAMEOVER"
    /\ 0 < score /\ score < neonHigh

\* everything update works on: the React state, the canvas and gameData,
\* whose lastFire, lastEnemySpawn and startTime the model keeps as the time
\* since then, which passes whether update runs or not
Simulation ==
    <<gameState, isPaused, score, coins, highScore, health, wave, bossHp,
      upgrades, neonHigh, canvas, player, bullets, enemyBullets, enemies,
      powerups, particles, boss, keys, enemiesDefeated, shotsFired, shotsHit>>

\* C3: when the phase is not PLAYING, or the game is paused, a frame's
\* update changes nothing: no entity collection, no player field, no timer
\* or counter, no score, coins, health or wave.
UpdateGated ==
    [][ (last'.op = "update" /\ (gameState # "PLAYING" \/ isPaused))
            => UNCHANGED Simulation ]_vars

\* a frame has passed over a paused game with enemies and a bullet in flight
PausedFrame ==
    /\ last.op = "update"
    /\ gameState = "PLAYING" /\ isPaused
    /\ enemies # <<>> /\ bullets # <<>>

\* C5: an enemy whose hp reaches 0 or less is removed in that same update
\* step: at the end of every step no enemy in the collection has hp <= 0.
NoDeadEnemy == \A i \in 1..Len(enemies) : enemies[i].hp > 0

\* a frame has destroyed an enemy and left another one in the collection
EnemyDestroyed ==
    /\ last.op = "update" /\ last.destroyed > 0
    /\ enemies # <<>>

\* C6: a damage event that reaches takeDamage while the shield is > 0 is
\* absorbed: health is unchanged, the shield becomes 0 and invulnerability
\* becomes 40; one that reaches it while the shield is 0 reduces health.
ShieldAbsorbs ==
    \A k \in 1..Len(last.td) :
        IF last.td[k].shield > 0
        THEN /\ last.td[k].healthAfter = last.td[k].health
             /\ last.td[k].shieldAfter = 0
             /\ last.td[k].invulAfter = ShieldInvul
        ELSE last.td[k].healthAfter < last.td[k].health

\* a frame in which the shield has absorbed a hit
ShieldAbsorbed ==
    /\ last.op = "update"
    /\ \E k \in 1..Len(last.td) : last.td[k].shield > 0
    /\ player.shield = 0 /\ player.invul = ShieldInvul

\* C10: within a run the score never decreases, and a frame awards exactly
\* +50 score and +10 coins for each enemy destroyed and exactly +2000 score
\* and +150 coins for each boss killed.
AwardsMatch ==
    [][ /\ last'.op # "startGame" => score' >= score
        /\ last'.op = "update" =>
            /\ score' = score + EnemyScore * last'.destroyed
                              + BossScore * last'.bossKills
            /\ coins' = coins + EnemyCoins * last'.destroyed
                              + BossCoins * last'.bossKills ]_vars

\* C14: while the player's invulnerability countdown is > 0 no damage takes
\* effect: takeDamage is only ever reached with the countdown at 0, and a
\* frame that starts with the countdown above 1 (so that it is still > 0
\* after line 390) calls it not at all, lowers no health and leaves the
\* shield to run down.
InvulProtects ==
    [][ last'.op = "update" =>
          /\ \A k \in 1..Len(last'.td) : last'.td[k].invul = 0
          /\ player.invul > 1 =>
                /\ last'.td = <<>>
                /\ health' >= health
                /\ player.shield > 1 => player'.shield > 0 ]_vars

\* an enemy is on top of the invulnerable player and a frame has left both
\* as they were
InvulPassedThrough ==
    /\ last.op = "update" /\ last.ran /\ last.td = <<>>
    /\ player.invul > 0 /\ player.invul < ShieldInvul
    /\ \E i \in 1..Len(enemies) :
            Overlap(enemies[i].x, enemies[i].y, EnemyW, EnemyH,
                    player.x, player.y, PlayerW, PlayerH)

\* C20: each enemy is destroyed at most once: in no update step does the
\* kill branch (reward, particle burst, enemiesDefeated + 1) run more often
\* than enemies were destroyed.
OneRewardPerEnemy == last.kills <= last.destroyed

\* C29: startGame, called from START or GAMEOVER after any previous
\* history, yields the same fresh run state: phase PLAYING, not paused,
\* score 0, coins 0, wave 1, health = maxHealth, no boss, all of enemies,
\* bullets, enemyBullets, powerups and particles empty, all player
\* countdowns (invul, shield, rapidFire, tripleShot) and vx at 0,
\* enemiesDefeated, shotsFired and shotsHit at 0; it leaves the upgrade
\* levels unchanged.
StartGameFresh ==
    [][ last'.op = "startGame" =>
          /\ gameState \in {"START", "GAMEOVER"}
          /\ gameState' = "PLAYING" /\ ~isPaused'
          /\ score' = 0 /\ coins' = 0 /\ wave' = 1
          /\ health' = upgrades'.maxHealth
          /\ boss' = <<>> /\ bossHp' = <<>>
          /\ enemies' = <<>> /\ bullets' = <<>> /\ enemyBullets' = <<>>
          /\ powerups' = <<>> /\ particles' = <<>>
          /\ player'.invul = 0 /\ player'.shield = 0
          /\ player'.rapidFire = 0 /\ player'.tripleShot = 0
          /\ player'.vx = 0
          /\ enemiesDefeated' = 0 /\ shotsFired' = 0 /\ shotsHit' = 0
          /\ upgrades' = upgrades ]_vars

\* a run that earned coins has ended and the player has started the next
Restarted ==
    /\ last.op = "startGame"
    /\ frames > 0
    /\ gameState = "PLAYING" /\ coins = 0 /\ particles = <<>>

\* C28: in every reachable state shotsHit <= shotsFired, so that the
\* accuracy shown, round(shotsHit / shotsFired * 100), is between 0 and
\* 100.
HitsWithinShots == shotsHit <= shotsFired

\* C21: an enemy leaves the collection only when its own hp reached <= 0
\* by a bullet, when it crossed the bottom boundary or when it overlapped a
\* non-invulnerable player: a frame takes no more enemies out of the
\* collection than it destroyed, saw fall past the bottom and saw ram the
\* player.
EnemiesLeaveForCause ==
    [][ last'.op = "update" =>
            Len(enemies) + last'.spawned - Len(enemies')
                <= last'.destroyed + last'.fell + last'.rammed ]_vars

(***************************************************************************)
(* SpecBoss: the boss of wave 1.  The behaviours start when the fifteenth  *)
(* enemy has been destroyed, or later in the fight: near the end of the    *)
(* boss's SPIRAL or HOMING state, with the boss at full strength or worn   *)
(* down, and the player unhurt or close to defeat; in wave 2 when the      *)
(* thirtieth has been destroyed; in a narrow window earlier in wave 1; and *)
(* in a wide one at the end of the boss's death.  The player stands still  *)
(* and holds the space bar or does not.                                    *)
(***************************************************************************)

\* animation frames in one behaviour of SpecBoss
MaxBossFrames == 340

\* a boss of wave 1, two frames before its SPIRAL state ends
LateSpiral(hp) ==
    BossSpiral([Boss(CW(Field), 250) EXCEPT
                    !.state = "SPIRAL", !.y = BossEntryY, !.hp = hp,
                    !.stateTimer = SpiralFrames - 2, !.angle = 77],
               CW(Field))

\* a boss of wave 1, two frames before its HOMING state ends
LateHoming(hp) ==
    BossHoming([Boss(CW(Field), 250) EXCEPT
                    !.state = "HOMING", !.hp = hp,
                    !.stateTimer = HomingFrames - 2],
               CW(Field), 0)

\* wave 1 after 15 kills, a minute into the run
Fifteen(hl, held) ==
    [ Mounted(Field, 500) EXCEPT
        !.gameState = "PLAYING",
        !.score = EnemiesPerWave * EnemyScore,
        !.coins = EnemiesPerWave * EnemyCoins,
        !.health = hl,
        !.enemiesDefeated = EnemiesPerWave,
        !.shotsFired = 40,
        !.shotsHit = 15,
        !.keys = held,
        !.elapsed = 60000,
        !.sinceSpawn = 600 ]

\* the fight against the boss b
Fight(b, hl, held) ==
    [ Fifteen(hl, held) EXCEPT
        !.boss = << b >>,
        !.bossHp = << [current |-> b.hp, max |-> b.maxHp] >>,
        !.shotsFired = 300,
        !.shotsHit = 15 + (b.maxHp - b.hp),
        !.elapsed = 100000,
        !.sinceSpawn = BaseSpawnRate ]

\* wave 1 after three kills in a window 100 pixels wide: the player has
\* picked up a triple shot and holds the space bar
Corridor ==
    [ Fifteen(100, {"Space"}) EXCEPT
        !.canvas = [w |-> 100, h |-> 500],
        !.player = [Recentre(NewPlayer, [w |-> 100, h |-> 500])
                        EXCEPT !.tripleShot = 300],
        !.score = 3 * EnemyScore,
        !.coins = 3 * EnemyCoins,
        !.enemiesDefeated = 3,
        !.shotsFired = 5,
        !.shotsHit = 3,
        !.elapsed = 20000 ]

\* wave 2 after 30 kills, two minutes into the run: nothing was bought in
\* the shop
Thirty ==
    [ Fifteen(100, {}) EXCEPT
        !.wave = 2,
        !.score = 3 * EnemiesPerWave * EnemyScore + BossScore,
        !.coins = 3 * EnemiesPerWave * EnemyCoins + BossCoins,
        !.enemiesDefeated = 2 * EnemiesPerWave,
        !.shotsFired = 400,
        !.shotsHit = 295,
        !.elapsed = MaxElapsed ]

\* the fifteenth kill came 1190 ms after the last enemy was spawned, in
\* the frame before this one: the next enemy is due
FifteenDue == [ Fifteen(100, {}) EXCEPT !.sinceSpawn = 1190 ]

\* A window of 1920 by 1080 pixels.  In its second SPIRAL state the boss of
\* wave 1 fires, at stateTimer 252, a shot that drifts to the right
\* (SpiralShooter); 20 frames later the player's bullets kill it (Killed)
\* and the player runs to the right, into the path of that shot.
Wide == [w |-> 1920, h |-> 1080]

SpiralShooter ==
    BossSpiral([Boss(CW(Wide), 250) EXCEPT
                    !.state = "SPIRAL", !.y = BossEntryY, !.hp = 40,
                    !.stateTimer = 252, !.angle = 146],
               CW(Wide))

SlowShot == SpiralShot([enemyBullets |-> <<>>], SpiralShooter).enemyBullets[1]

Killed ==
    [ BossSpiral([SpiralShooter EXCEPT !.stateTimer = 272, !.angle = 166],
                 CW(Wide))
        EXCEPT !.state = "DYING", !.hp = 0 ]

\* 178 frames after the boss was killed: the shot, 198 frames old, is three
\* frames away from the player, who has 15 health left
LastShot ==
    [ Fight([Killed EXCEPT !.deathTimer = 178, !.stateTimer = @ + 178,
                           !.y = @ + 4 * 178],
            15, {}) EXCEPT
        !.canvas = Wide,
        !.player = [Recentre(NewPlayer, Wide) EXCEPT
                        !.x = SlowShot.x + 201 * SlowShot.vx - 200],
        !.enemyBullets = << [SlowShot EXCEPT !.x = @ + 198 * SlowShot.vx,
                                             !.y = @ + 198 * SlowShot.vy] >> ]

\* the boss is down to 6 hp, two frames before it charges; the player has
\* a shield and holds the space bar
Shielded ==
    [ Fight(LateHoming(6), 100, {"Space"}) EXCEPT !.player.shield = 300 ]

\* A window 400 pixels wide and 3000 high (a page zoomed out).  In wave 2
\* the 300 coins of wave 1 have gone into damage 2, 3 and 4.  The last
\* enemy was spawned 70 s into the run, 32 frames before the boss; the
\* boss (350 hp) was killed in its SPIRAL state 440 frames after it was
\* created and has been dying for 178 frames.  That enemy, 650 frames old,
\* has come down the player's column to 95 pixels above the player, whose
\* bullet of three frames ago is on its way to it.
Tall == [w |-> 400, h |-> 3000]

LastEnemy ==
    Aged(Enemy(TruncDiv(2 * (CW(Tall) - EnemyW), 4), "BASIC",
               EnemySpeed(2, 70000)),
         650, CW(Tall))

LastKill ==
    [ Fight([BossSpiral([Boss(CW(Tall), 350) EXCEPT
                            !.state = "SPIRAL", !.y = BossEntryY,
                            !.stateTimer = 440, !.angle = 69],
                        CW(Tall))
                EXCEPT !.state = "DYING", !.hp = -2, !.deathTimer = 178,
                       !.stateTimer = @ + 178, !.y = @ + 4 * 178],
            100, {"Space"}) EXCEPT
        !.canvas = Tall,
        !.player = Recentre(NewPlayer, Tall),
        !.wave = 2,
        !.upgrades.damage = 4,
        !.score = 3 * EnemiesPerWave * EnemyScore + BossScore,
        !.coins = 2 * EnemiesPerWave * EnemyCoins,
        !.enemiesDefeated = 2 * EnemiesPerWave,
        !.shotsFired = 600,
        !.shotsHit = 383,
        !.enemies = << LastEnemy >>,
        !.bullets = << Projectile(Recentre(NewPlayer, Tall).x + 180,
                                  Recentre(NewPlayer, Tall).y + 3 * BulletVy,
                                  0, BulletVy) >>,
        !.sinceFire = 48,
        !.elapsed = 80400 ]

BossScenarios ==
    { Fifteen(100, {"Space"}),
      Corridor,
      LastKill,
      Thirty,
      FifteenDue,
      LastShot,
      Shielded,
      Fight(LateSpiral(250), 100, {}),
      Fight(LateHoming(250), 100, {}),
      Fight(LateHoming(12), 100, {"Space"}),
      Fight(LateHoming(3), 100, {"Space"}),
      Fight(LateHoming(250), 15, {}) }

Steady ==
    [ dt |-> 16, eager |-> FALSE, r |-> 20, sx |-> 2, shoot |-> {},
      drop |-> "NONE", rnd |-> 0 ]

\* React runs the health updater at the call of setHealth or when it next
\* renders; the two differ only for an enemy bullet that takes the last
\* health
BossFrame ==
    /\ frames < MaxBossFrames
    /\ frames' = frames + 1
    /\ \E eg \in IF enemyBullets # <<>> /\ health <= EnemyBulletDamage
                 THEN BOOLEAN ELSE {FALSE} :
            Update([Steady EXCEPT !.eager = eg])

BossInit == InitFrom(BossScenarios)

BossNext ==
    \/ BossFrame
    \/ StartGame
    \/ NextWave

SpecBoss == BossInit /\ [][BossNext]_vars

\* the attack cycle
Cycle ==
    { <<"ENTRY", "SPIRAL">>, <<"SPIRAL", "HOMING">>, <<"HOMING", "CHARGE">>,
      <<"CHARGE", "ENTRY">> }

\* C7: while a boss is not DYING its state changes only along the cycle
\* ENTRY -> SPIRAL -> HOMING -> CHARGE -> ENTRY.
BossCycle ==
    [][ ( /\ boss # <<>> /\ boss' # <<>>
          /\ boss[1].state # "DYING" /\ boss'[1].state # "DYING"
          /\ boss'[1].state # boss[1].state )
            => <<boss[1].state, boss'[1].state>> \in Cycle ]_vars

\* the boss has charged past the bottom and is back in ENTRY above the screen
BossReentered ==
    /\ boss # <<>>
    /\ boss[1].state = "ENTRY"
    /\ boss[1].y = BossResetY
    /\ boss[1].stateTimer = 0

\* C8: a boss enters DYING only when its hp has reached 0 or less, and only
\* from SPIRAL, HOMING or CHARGE: a boss in ENTRY never becomes DYING.
DyingNotFromEntry ==
    /\ (boss # <<>> /\ boss[1].state = "DYING") => boss[1].hp <= 0
    /\ last.diedIn # "ENTRY"

\* C9: DYING is terminal: once a boss is DYING its state never changes to
\* another state; only the removal of the boss follows.
DyingTerminal ==
    [][ (boss # <<>> /\ boss[1].state = "DYING")
            => (boss' = <<>> \/ boss'[1].state = "DYING") ]_vars

\* a boss has died and has been removed
BossRemoved ==
    /\ last.op = "update" /\ last.bossKills = 1
    /\ boss = <<>>
    /\ gameState = "SHOP"

\* C11: a player projectile is removed in the first update step in which,
\* after moving, its y is below -50 or its x is outside [-50, canvasWidth +
\* 50]: no projectile with y < -50 is ever in the collection, and after
\* every update step none has its x outside that range.
BulletsInRange ==
    \A k \in 1..Len(bullets) :
        /\ bullets[k].y >= -500
        /\ (last.op = "update" /\ last.ran)
                => (bullets[k].x >= -500 /\ bullets[k].x <= CW(canvas) + 500)

\* a frame has removed a bullet that left the field and kept the others
BulletLeft ==
    /\ last.op = "update" /\ last.left > 0
    /\ bullets # <<>>

\* C12: an update step that starts with enemiesDefeated >= wave * 15 and no
\* boss creates a boss with hp = maxHp = 150 + wave * 100 in state ENTRY,
\* and a boss is never created when the threshold is not met.
BossSpawns ==
    [][ /\ ( /\ last'.op = "update" /\ last'.ran
             /\ boss = <<>>
             /\ enemiesDefeated >= wave * EnemiesPerWave )
            => ( /\ boss' # <<>>
                 /\ boss'[1].hp = 150 + wave * 100
                 /\ boss'[1].maxHp = 150 + wave * 100
                 /\ boss'[1].state = "ENTRY" )
        /\ (boss = <<>> /\ boss' # <<>>)
            => ( /\ last'.op = "update" /\ last'.ran
                 /\ enemiesDefeated >= wave * EnemiesPerWave ) ]_vars

\* the boss of wave 2 has just been created
BossCreated ==
    /\ last.op = "update" /\ last.ran
    /\ wave = 2
    /\ boss # <<>>
    /\ boss[1].hp = 350 /\ boss[1].y = BossStartY /\ boss[1].stateTimer = 0

\* C13: while a boss exists no enemy is spawned: in every update step in
\* which a boss is present, the step that creates it included, the enemy
\* collection gains no element.
NoSpawnWithBoss ==
    [][ (last'.op = "update" /\ (boss # <<>> \/ boss' # <<>>))
            => (last'.spawned = 0 /\ Len(enemies') <= Len(enemies)) ]_vars

DyingBossHarmless ==
    \A k \in 1..Len(last.td) :
        last.td[k].amt = BossContactDamage => ~last.td[k].dying

\* C17: a DYING boss counts its deathTimer up by one in every update step
\* and completes its death in the step that takes it beyond 180; that step,
\* and no other, awards +2000 score and +150 coins (once), increments wave,
\* resets enemiesDefeated (which then only counts the kills of the rest of
\* the frame), removes the boss and, unless the run ends in the same frame,
\* moves the phase to SHOP.
BossDeathCompletes ==
    [][ last'.op = "update" =>
          /\ (last'.ran /\ boss # <<>> /\ boss[1].state = "DYING") =>
                IF boss[1].deathTimer < BossDeathFrames
                THEN /\ boss' # <<>>
                     /\ boss'[1].deathTimer = boss[1].deathTimer + 1
                     /\ last'.bossKills = 0
                ELSE last'.bossKills = 1
          /\ last'.bossKills \in {0, 1}
          /\ last'.bossKills = 0 =>
                (wave' = wave /\ (gameState' = "SHOP" => gameState = "SHOP"))
          /\ last'.bossKills = 1 =>
                /\ boss # <<>> /\ boss[1].state = "DYING"
                /\ score' = score + BossScore + EnemyScore * last'.kills
                /\ coins' = coins + BossCoins + EnemyCoins * last'.kills
                /\ wave' = wave + 1
                /\ enemiesDefeated' = last'.kills
                /\ boss' = <<>>
                /\ gameState' # "GAMEOVER" => gameState' = "SHOP" ]_vars

\* the boss of wave 1 has died: the player is in the shop of wave 2 with
\* the boss's reward
BossDeathAwarded ==
    /\ last.op = "update" /\ last.bossKills = 1
    /\ gameState = "SHOP" /\ health > 0
    /\ wave = 2 /\ enemiesDefeated = 0
    /\ score = EnemiesPerWave * EnemyScore + BossScore
    /\ coins = EnemiesPerWave * EnemyCoins + BossCoins

\* C18: the boss's state timer is reset on entry: whenever the boss is
\* created or enters ENTRY, SPIRAL, HOMING or CHARGE its stateTimer is 0.
TimerResetOnEntry ==
    [][ ( /\ boss' # <<>>
          /\ boss'[1].state # "DYING"
          /\ (boss = <<>> \/ boss'[1].state # boss[1].state) )
            => boss'[1].stateTimer = 0 ]_vars

\* C25: the game phase changes only along START -> PLAYING (startGame),
\* PLAYING -> GAMEOVER (health reaches 0), PLAYING -> SHOP (boss death
\* completes), SHOP -> PLAYING (next wave) and GAMEOVER -> PLAYING
\* (restart); START is never re-entered, SHOP is entered only with no boss
\* present and enemiesDefeated = 0, and no transition SHOP -> GAMEOVER
\* occurs.
PhaseTransitions ==
    [][ gameState' # gameState =>
          \/ /\ gameState \in {"START", "GAMEOVER"}
             /\ gameState' = "PLAYING"
             /\ last'.op = "startGame"
          \/ /\ gameState = "PLAYING" /\ gameState' = "GAMEOVER"
             /\ last'.op = "update" /\ health' = 0
          \/ /\ gameState = "PLAYING" /\ gameState' = "SHOP"
             /\ last'.op = "update" /\ last'.bossKills = 1
             /\ boss' = <<>>
             /\ enemiesDefeated' = 0
          \/ /\ gameState = "SHOP" /\ gameState' = "PLAYING"
             /\ last'.op = "nextWave" ]_vars

(***************************************************************************)
(* SpecMove: the player's movement.  A window 100 pixels wide and one      *)
(* narrower than the player; the arrow keys and P; frames of 20 ms.        *)
(***************************************************************************)
MaxMoveFrames == 8

MoveSizes == { [w |-> 100, h |-> 200], [w |-> 30, h |-> 200] }

Calm ==
    [ dt |-> 20, eager |-> FALSE, r |-> 20, sx |-> 2, shoot |-> {},
      drop |-> "NONE", rnd |-> 0 ]

MoveInit == InitFrom({ Mounted(sz, 0) : sz \in MoveSizes })

MoveFrame ==
    /\ frames < MaxMoveFrames
    /\ frames' = frames + 1
    /\ Update(Calm)

MovePress == \E code \in {"ArrowLeft", "ArrowRight"} : KeyDown(code)

MoveRelease == \E code \in {"ArrowLeft", "ArrowRight"} : KeyUp(code)

MoveResize == \E size \in MoveSizes : Resize(size)

\* the player presses P
MovePause == KeyDown("KeyP")

MoveNext ==
    \/ MoveFrame
    \/ StartGame
    \/ MovePress
    \/ MoveRelease
    \/ MoveResize
    \/ MovePause

SpecMove == MoveInit /\ [][MoveNext]_vars

\* the step just taken was a resize, or an update that got past line 366
Placed == last.op = "resize" \/ (last.op = "update" /\ last.ran)

InField == 0 <= player.x /\ player.x <= CW(canvas) - PlayerW

\* C4, as stated: after every update step and after every resize the
\* player's x is at least 0 and at most canvasWidth - 40.
PlayerInFieldAlways == Placed => InField

\* C4, amended: on a canvas at least as wide as the player (canvasWidth >=
\* 40), after every update step and after every resize the player's x is at
\* least 0 and at most canvasWidth - 40.
PlayerInField == (CW(canvas) >= PlayerW /\ Placed) => InField

\* an update has stopped the player, moving left, at the left edge
PlayerStoppedAtEdge ==
    /\ last.op = "update" /\ last.ran
    /\ CW(canvas) >= PlayerW
    /\ player.vx < 0
    /\ player.x = 0

\* C19: pausing and resuming (key P while PLAYING) leaves the simulation
\* state unchanged: the player's position and velocity, every entity
\* collection, the boss and all counters.
PauseKeeps ==
    [][ isPaused' # isPaused =>
            UNCHANGED <<player, bullets, enemyBullets, enemies, powerups,
                        particles, boss, score, coins, health, wave,
                        enemiesDefeated, shotsFired, shotsHit>> ]_vars

(***************************************************************************)
(* SpecShop: the shop and what the player takes out of it.  The behaviours *)
(* start in the shop after the boss of wave 1, with the 300 coins of the   *)
(* wave; in wave 2 with the fire rate bought twice and a rapid-fire        *)
(* power-up running; and in wave 1 with a HEAL power-up above the player.  *)
(***************************************************************************)

\* animation frames in one behaviour of SpecShop
MaxShopFrames == 8

UpgradeKeys == {"damage", "fireRate", "speed", "maxHealth"}

\* wave 2 after four kills: the 300 coins of wave 1 went into fire rate 2
\* and 3 (50 + 100), and a kill has dropped a power-up that is still
\* running
Armed(rapid, triple) ==
    [ Shop EXCEPT
        !.gameState = "PLAYING",
        !.health = 100,
        !.upgrades.fireRate = 3,
        !.score = @ + 4 * EnemyScore,
        !.coins = @ - 150 + 4 * EnemyCoins,
        !.enemiesDefeated = 4,
        !.shotsFired = @ + 9,
        !.shotsHit = @ + 4,
        !.player.rapidFire = rapid,
        !.player.tripleShot = triple,
        !.elapsed = 110000,
        !.sinceSpawn = 100 ]

\* wave 1 with health h: the enemy above the player is gone and the HEAL
\* power-up it dropped reaches the player in the next frame
Aid(h) ==
    [ MidWave(7, "BASIC", 0, 0, FALSE) EXCEPT
        !.health = h,
        !.enemies = << Follower >>,
        !.powerups = << PowerUp(CW(Field) \div 2 - 200, 3500, "HEAL") >> ]

\* the same with an enemy bullet that takes the last health in that frame
AidTooLate ==
    [ Aid(15) EXCEPT
        !.enemyBullets = << Projectile(CW(Field) \div 2, 3760, 0,
                                       EnemyBulletVy) >> ]

ShopScenarios ==
    { Shop, Armed(300, 0), Armed(0, 300), Armed(0, 0), Aid(20), Aid(90),
      AidTooLate }

ShopInit == InitFrom(ShopScenarios)

ShopFrame ==
    /\ frames < MaxShopFrames
    /\ frames' = frames + 1
    /\ \E eg \in IF enemyBullets # <<>> /\ health <= EnemyBulletDamage
                 THEN BOOLEAN ELSE {FALSE} :
            Update([Steady EXCEPT !.eager = eg])

ShopBuy == \E key \in UpgradeKeys : BuyUpgrade(key)

ShopBuyTwice == \E k1 \in UpgradeKeys, k2 \in UpgradeKeys : BuyTwice(k1, k2)

ShopPress == KeyDown("Space")

ShopRelease == KeyUp("Space")

ShopNext ==
    \/ ShopFrame
    \/ StartGame
    \/ ShopPress
    \/ ShopRelease
    \/ ShopBuy
    \/ ShopBuyTwice
    \/ NextWave

SpecShop == ShopInit /\ [][ShopNext]_vars

\* C22: buyUpgrade(key) with coins >= cost decreases coins by exactly the
\* cost and raises the level by one step (+1 for damage, fireRate and
\* speed, +20 for maxHealth), and the next purchase of the same upgrade
\* costs exactly 50 more; with coins < cost it changes neither coins nor
\* upgrades.
PurchaseExact ==
    [][ last'.op = "buyUpgrade" =>
          LET key == last'.key
              cost == IF key = "maxHealth"
                      THEN (upgrades.maxHealth * 50) \div 20
                      ELSE upgrades[key] * 50
          IN  IF coins >= cost
              THEN /\ coins' = coins - cost
                   /\ upgrades' = [upgrades EXCEPT ![key] =
                            @ + (IF key = "maxHealth" THEN 20 ELSE 1)]
                   /\ UpgradeCost(upgrades', key) = cost + 50
              ELSE /\ coins' = coins
                   /\ upgrades' = upgrades ]_vars

\* damage has been bought twice, for 50 and 100 coins, and a click on
\* maxHealth, which the 150 coins left do not cover, has been refused
BoughtAndRefused ==
    /\ last.op = "buyUpgrade" /\ last.key = "maxHealth"
    /\ upgrades.damage = 3 /\ upgrades.maxHealth = 100
    /\ coins = 150

\* C24: firing is rate-limited: a fire request (a running frame with the
\* space bar held) creates projectiles only if more than cooldown
\* milliseconds have passed since the last successful shot, where cooldown
\* is 250 / (1 + 0.2 * fireRate), or 80 / (1 + 0.2 * fireRate) while
\* rapidFire > 0; a successful shot adds exactly 1 projectile, or exactly 3
\* while tripleShot > 0, and a rejected request adds none and leaves the
\* time of the last shot as it was.
FireRateLimited ==
    [][ last'.op = "update" =>
          LET asked == last'.ran /\ "Space" \in keys
              base == IF player.rapidFire > 0 THEN 80 ELSE 250
              \* since > base / (1 + fireRate / 5)
              due == last'.since * (5 + upgrades.fireRate) > base * 5
          IN  IF asked /\ due
              THEN /\ last'.fired = IF player.tripleShot > 0 THEN 3 ELSE 1
                   /\ shotsFired' = shotsFired + 1
                   /\ sinceFire' = 0
              ELSE /\ last'.fired = 0
                   /\ shotsFired' = shotsFired
                   /\ sinceFire' = last'.since ]_vars

\* with rapid fire and fire rate 3 (cooldown 50 ms) the second shot has
\* gone off 64 ms after the first, after three requests were rejected
SecondRapidShot ==
    /\ last.op = "update" /\ last.fired = 1 /\ last.since = 64
    /\ player.rapidFire > 0 /\ upgrades.fireRate = 3
    /\ Len(bullets) = 2

\* C26: in every reachable state 0 <= health <= upgrades.maxHealth: a HEAL
\* power-up adds 30 capped at maxHealth, lethal damage sets health to
\* exactly 0, and startGame and the shop's next-wave action set health to
\* maxHealth.
HealthInRange ==
    /\ [](0 <= health /\ health <= upgrades.maxHealth)
    /\ [][ /\ last'.op \in {"startGame", "nextWave"} =>
                health' = upgrades'.maxHealth
           /\ \A k \in 1..Len(last'.heals) :
                last'.heals[k].healthAfter =
                    IF last'.heals[k].health + 30 > upgrades.maxHealth
                    THEN upgrades.maxHealth
                    ELSE last'.heals[k].health + 30
           /\ \A k \in 1..Len(last'.td) :
                (last'.td[k].shield = 0
                 /\ last'.td[k].health <= last'.td[k].amt) =>
                    last'.td[k].healthAfter = 0
           /\ (last'.op = "update" /\ last'.td = <<>> /\ last'.heals = <<>>)
                => health' = health ]_vars

\* a HEAL collected at health 90 has brought it to maxHealth, 100
HealCapped ==
    /\ last.op = "update"
    /\ Len(last.heals) = 1 /\ last.heals[1].health = 90
    /\ health = 100 /\ upgrades.maxHealth = 100

\* C27: coins are never negative in any reachable state.
CoinsNeverNegative == coins >= 0

(***************************************************************************)
(* SpecCycle: the boss of wave 1 for as long as the page is open.  The     *)
(* loop of line 607 asks for the next animation frame at the end of each   *)
(* one, so frames keep coming: the frame is weakly fair.  The player       *)
(* stands still; the behaviours start when the boss is due and late in its *)
(* SPIRAL and HOMING states, and in one the player holds the space bar     *)
(* against a boss close to its end.  The boss's cycle repeats, so the      *)
(* frames are counted modulo 2 here; the frame is the only step and every  *)
(* frame changes that count, which is how the fairness of the frame is     *)
(* stated.                                                                 *)
(***************************************************************************)
CycleScenarios ==
    { Fifteen(100, {}),
      Fight(LateSpiral(250), 100, {}),
      Fight(LateHoming(250), 100, {}),
      Fight(LateHoming(12), 100, {"Space"}) }

CycleInit == InitFrom(CycleScenarios)

CycleFrame ==
    /\ frames' = 1 - frames
    /\ Update(Steady)

CycleNext == CycleFrame

\* a frame has been handled
FrameHandled == frames' = 1 - frames

SpecCycle == CycleInit /\ [][CycleNext]_vars /\ WF_frames(FrameHandled)

\* update steps happen and the boss has hp > 0
BossAlive ==
    /\ gameState = "PLAYING" /\ ~isPaused
    /\ boss # <<>>
    /\ boss[1].hp > 0

BossIn(state) == BossAlive /\ boss[1].state = state

\* C23: a boss that is never killed attacks in an infinite cycle: as long
\* as PLAYING steps keep happening and its hp stays > 0, from each of
\* ENTRY, SPIRAL, HOMING and CHARGE it eventually reaches the next state of
\* the cycle, and from CHARGE it returns to ENTRY above the screen, at
\* y = -250.
BossKeepsCycling ==
    /\ BossIn("ENTRY") ~> (~BossAlive \/ BossIn("SPIRAL"))
    /\ BossIn("SPIRAL") ~> (~BossAlive \/ BossIn("HOMING"))
    /\ BossIn("HOMING") ~> (~BossAlive \/ BossIn("CHARGE"))
    /\ BossIn("CHARGE") ~>
            (~BossAlive \/ (BossIn("ENTRY") /\ boss[1].y = BossResetY))

\* the boss has been through CHARGE and ENTRY and has started its second
\* SPIRAL state, unhurt
SecondSpiral ==
    /\ BossIn("SPIRAL")
    /\ boss[1].hp = boss[1].maxHp
    /\ boss[1].stateTimer = 186

(***************************************************************************)
(* SpecPause: the P key around the end of a wave and of a run.  The        *)
(* behaviours start in the middle of wave 1 with an enemy about to reach   *)
(* the player, whose health is 20, and three frames before the boss's      *)
(* death completes, the player unhurt.  update queues its state changes from an animation     *)
(* frame callback, and React commits them in a later task; the keydown     *)
(* listener of line 616 is the browser's own, so a key event can be        *)
(* handled in between.                                                     *)
(***************************************************************************)

\* animation frames in one behaviour of SpecPause
MaxPauseFrames == 8

PauseScenarios ==
    { MidWave(6, "BASIC", 0, 0, FALSE),
      MidWave(6, "DIVER", 300, 0, TRUE),
      [LastShot EXCEPT !.health = 100] }

PauseInit == InitFrom(PauseScenarios)

PauseFrame ==
    /\ frames < MaxPauseFrames
    /\ frames' = frames + 1
    /\ Update(Steady)

\* P is pressed between two frames
PausePress == KeyDown("KeyP")

\* P is pressed after a frame's update and before its commit
PausePressEarly ==
    /\ frames < MaxPauseFrames
    /\ frames' = frames + 1
    /\ FrameAndKeys(Steady, {"KeyP"})

PauseNext ==
    \/ PauseFrame
    \/ PausePress
    \/ PausePressEarly
    \/ StartGame
    \/ NextWave

SpecPause == PauseInit /\ [][PauseNext]_vars

\* C30: the pause flag is set only in phase PLAYING: in every reachable
\* state isPaused = true implies phase = PLAYING, and no phase transition
\* (to SHOP or GAMEOVER) happens while paused.
PausedOnlyPlaying ==
    /\ [](isPaused => gameState = "PLAYING")
    /\ [][ isPaused => gameState' = gameState ]_vars

====
